---- MODULE Spec2Model ----
(***************************************************************************)
(* Model of QC_app.py: one run of main() over a loaded QC series, the      *)
(* guard on the standard deviation, the Westgard rule engine               *)
(* (apply_westgard_rules) and the violation traces of create_qc_chart.     *)
(*                                                                         *)
(* A pandas Series is a pair of sequences of equal length: `series` (the   *)
(* values, position p of the model = .iloc[p-1]) and `index` (the labels,  *)
(* strictly increasing).  Measurement values, mean and standard deviation  *)
(* are integers; a missing float (NaN) is the empty sequence and a present *)
(* one the one-element sequence, so that pd.isna is decidable.             *)
(***************************************************************************)
EXTENDS Integers, Sequences, FiniteSets, TLC

VARIABLES
    series,         \* qc_data[selected_parameter] values
    index,          \* its index labels
    mean,           \* main: mean
    std_dev,        \* main: std_dev, NaN or Num(v)
    applied_rules,  \* main: st.multiselect result
    pc,             \* position of the script run: "ready", "warned", "charted"
    violations,     \* main: violations (dict rule -> list); no key when not produced
    fig             \* what create_qc_chart / st.plotly_chart rendered

vars == <<series, index, mean, std_dev, applied_rules, pc, violations, fig>>

\* ------------------------------------------------------------------ bounds
GuardLen == 2   \* longest series of the guard / rule-subset inputs
PointLen == 3   \* longest series of the single-point and pair inputs
ZoneLen  == 5   \* longest series of the 2-2s / 4-1s inputs
TrendLen == 9   \* longest series of the 7-T inputs
SideLen  == 11  \* longest series of the 10-x inputs

\* ------------------------------------------------------------------ values
westgard_rules_options == {"1-3s", "2-2s", "R-4s", "4-1s", "10-x", "7-T"}

NaN == <<>>
Num(v) == <<v>>
isna(x) == x = NaN

abs(x) == IF x < 0 THEN -x ELSE x

\* ------------------------------------------------------------------ thresholds
s_p1_minus(m, sd) == m - sd
s_p1(m, sd) == m + sd
s_p2(m, sd) == m + 2 * sd
s_p3(m, sd) == m + 3 * sd
s_m1(m, sd) == m - sd
s_m2(m, sd) == m - 2 * sd
s_m3(m, sd) == m - 3 * sd

\* ------------------------------------------------------------------ list helpers
\* The body of a `for i in range(lo-1, n)` loop that extends one list:
\* hits[i] is what iteration i appends.
RECURSIVE extend(_, _, _)
extend(hits, i, n) ==
    IF i > n THEN <<>> ELSE hits[i] \o extend(hits, i + 1, n)

\* series.iloc[lo-1:hi].index as a list
window_index(ix, lo, hi) == [k \in 1..(hi - lo + 1) |-> ix[lo + k - 1]]

to_set(l) == {l[k] : k \in 1..Len(l)}

RECURSIVE sorted(_)
sorted(S) ==
    IF S = {} THEN <<>>
    ELSE LET m == CHOOSE x \in S : \A y \in S : x <= y
         IN <<m>> \o sorted(S \ {m})

\* sorted(list(set(l)))
keep_all(l) == l
dedup(l) == sorted(to_set(l))

\* dict.get(k, [])
get(d, k) == IF k \in DOMAIN d THEN d[k] ELSE <<>>

\* ------------------------------------------------------------------ rule conditions
outside_3s_inclusive(v, m, sd) == v >= s_p3(m, sd) \/ v <= s_m3(m, sd)
outside_3s(v, m, sd) == v > s_p3(m, sd) \/ v < s_m3(m, sd)

pair_2s_either_side(a, b, m, sd) ==
    /\ (a > s_p2(m, sd) \/ a < s_m2(m, sd))
    /\ (b > s_p2(m, sd) \/ b < s_m2(m, sd))
pair_2s(a, b, m, sd) ==
    \/ (b > s_p2(m, sd) /\ a > s_p2(m, sd))
    \/ (b < s_m2(m, sd) /\ a < s_m2(m, sd))

range_4s_inclusive(a, b, sd) == abs(b - a) >= 4 * sd
range_4s(a, b, sd) == abs(b - a) > 4 * sd

\* all(last_four > s_p1) or all(last_four < s_m1), last_four = iloc[i-3:i+1]
four_1s(s, i, m, sd) ==
    \/ \A p \in (i - 3)..i : s[p] > s_p1(m, sd)
    \/ \A p \in (i - 3)..i : s[p] < s_m1(m, sd)

\* all(last_ten > mean) or all(last_ten < mean), last_ten = iloc[i-9:i+1]
ten_x_inclusive(s, i, m) ==
    \/ \A p \in (i - 9)..i : s[p] >= m
    \/ \A p \in (i - 9)..i : s[p] <= m
ten_x(s, i, m) ==
    \/ \A p \in (i - 9)..i : s[p] > m
    \/ \A p \in (i - 9)..i : s[p] < m

\* last_seven = iloc[i-6:i+1]; j ranges over its positions 1..6
trend_up_weak(s, i) == \A j \in (i - 5)..i : s[j] >= s[j - 1]
trend_up(s, i) == \A j \in (i - 5)..i : s[j] > s[j - 1]
trend_down(s, i) == \A j \in (i - 5)..i : s[j] < s[j - 1]

\* ------------------------------------------------------------------ the six rules
rule_1_3s(s, ix, m, sd) ==
    extend([i \in 1..Len(s) |->
              IF outside_3s(s[i], m, sd) THEN <<ix[i]>> ELSE <<>>],
           1, Len(s))

rule_2_2s(s, ix, m, sd) ==
    extend([i \in 2..Len(s) |->
              IF pair_2s(s[i - 1], s[i], m, sd)
              THEN <<ix[i - 1], ix[i]>> ELSE <<>>],
           2, Len(s))

rule_R_4s(s, ix, sd) ==
    extend([i \in 2..Len(s) |->
              IF range_4s(s[i - 1], s[i], sd)
              THEN <<ix[i - 1], ix[i]>> ELSE <<>>],
           2, Len(s))

rule_4_1s_clipped(s, ix, m, sd) ==
    extend([i \in 3..Len(s) |->
              LET lo == IF i - 3 < 1 THEN 1 ELSE i - 3
              IN IF \/ \A p \in lo..i : s[p] > s_p1(m, sd)
                    \/ \A p \in lo..i : s[p] < s_m1(m, sd)
                 THEN window_index(ix, lo, i) ELSE <<>>],
           3, Len(s))
rule_4_1s(s, ix, m, sd) ==
    extend([i \in 4..Len(s) |->
              IF four_1s(s, i, m, sd)
              THEN window_index(ix, i - 3, i) ELSE <<>>],
           4, Len(s))

rule_10_x(s, ix, m) ==
    extend([i \in 10..Len(s) |->
              IF ten_x(s, i, m)
              THEN window_index(ix, i - 9, i) ELSE <<>>],
           10, Len(s))

rule_7_T(s, ix) ==
    extend([i \in 7..Len(s) |->
              (IF trend_up(s, i) THEN window_index(ix, i - 6, i) ELSE <<>>)
              \o (IF trend_down(s, i) THEN window_index(ix, i - 6, i) ELSE <<>>)],
           7, Len(s))

\* ------------------------------------------------------------------ apply_westgard_rules
\* The lists before the final pass.  violations is a defaultdict(list):
\* '1-3s' is always assigned; another key exists only once its list was
\* touched by .extend, that is once a window of the rule fired.
raw_violations(s, ix, m, sd) ==
    LET all == [r \in westgard_rules_options |->
                  CASE r = "1-3s" -> rule_1_3s(s, ix, m, sd)
                    [] r = "2-2s" -> rule_2_2s(s, ix, m, sd)
                    [] r = "R-4s" -> rule_R_4s(s, ix, sd)
                    [] r = "4-1s" -> rule_4_1s(s, ix, m, sd)
                    [] r = "10-x" -> rule_10_x(s, ix, m)
                    [] r = "7-T"  -> rule_7_T(s, ix)]
        keys == {"1-3s"} \cup {r \in westgard_rules_options : all[r] # <<>>}
    IN [r \in keys |-> all[r]]

apply_westgard_rules(s, ix, m, sd) ==
    LET raw == raw_violations(s, ix, m, sd)
    IN [r \in DOMAIN raw |-> dedup(raw[r])]

\* ------------------------------------------------------------------ create_qc_chart
\* The rules whose violation trace is added to the figure.
drawn_all_rules(v, rules) ==
    {r \in westgard_rules_options : get(v, r) # <<>>}
drawn_rules(v, rules) ==
    {r \in rules : get(v, r) # <<>>}

create_qc_chart(cl, ucl, lcl, v, rules) ==
    [rendered |-> TRUE,
     lines    |-> <<cl, ucl, lcl>>,
     traces   |-> [r \in drawn_rules(v, rules) |-> get(v, r)]]

no_chart == [rendered |-> FALSE, lines |-> <<>>, traces |-> <<>>]
no_violations == <<>>

\* ------------------------------------------------------------------ inputs
\* What a run reads: the loaded series, the limits of the selected
\* parameter and the selected rules.
Input(s, ix, m, sd, rules) ==
    [series |-> s, index |-> ix, mean |-> m, std_dev |-> sd, applied_rules |-> rules]

SeqsUpTo(V, n) == UNION {[1..k -> V] : k \in 0..n}

\* The default RangeIndex, and the same with the row labelled d filtered out.
RangeIndex(n) == [i \in 1..n |-> i - 1]
DroppedIndex(n, d) == [i \in 1..n |-> IF i - 1 < d THEN i - 1 ELSE i]

\* Limits of every kind against every selection of rules.
GuardInputs ==
    {Input(s, RangeIndex(Len(s)), 0, sd, rules) :
        s \in SeqsUpTo({0, 4}, GuardLen),
        sd \in {NaN, Num(-1), Num(0), Num(1)},
        rules \in SUBSET westgard_rules_options}

\* Short series around the 3s limits and the 4s range, two centers, with
\* and without a gap in the index.
PointInputs ==
    UNION {{Input(s, ix, m, Num(1), westgard_rules_options) :
               ix \in {RangeIndex(Len(s)), DroppedIndex(Len(s), 1)}, m \in {0, 1}} :
           s \in SeqsUpTo({-4, -3, -1, 0, 3, 4}, PointLen)}

\* Series around the 1s and 2s limits, on both sides.
ZoneInputs ==
    {Input(s, DroppedIndex(Len(s), 2), 0, Num(1), westgard_rules_options) :
        s \in SeqsUpTo({-3, -2, 1, 2, 3}, ZoneLen)}

\* Series that rise, fall or stay by one step per point.
Walk(d) == LET RECURSIVE at(_)
               at(i) == IF i = 1 THEN 0 ELSE at(i - 1) + d[i - 1]
           IN [i \in 1..(Len(d) + 1) |-> at(i)]
TrendInputs ==
    {Input(Walk(d), RangeIndex(Len(d) + 1), 0, Num(2), westgard_rules_options) :
        d \in UNION {[1..k -> {-1, 0, 1}] : k \in 5..(TrendLen - 1)}}

\* Series on one side of the center, but for two points.
SideSeries(n, side, p, vp, q, vq) ==
    [i \in 1..n |-> IF i = p THEN vp ELSE IF i = q THEN vq ELSE side]
SideInputs ==
    UNION {{Input(SideSeries(n, side, p, vp, q, vq), RangeIndex(n), 2, Num(1),
                  westgard_rules_options) :
               side \in {1, 3}, p \in 1..n, q \in 1..n, vp \in 1..3, vq \in 1..3} :
           n \in 9..SideLen}

\* The worked examples of the rules.
ExampleInputs ==
    {Input(s, RangeIndex(Len(s)), 0, Num(1), westgard_rules_options) :
        s \in {<<0, 0, 0, 0, 100>>, <<0, 5>>, <<0, 4>>}}

Inputs ==
    GuardInputs \cup PointInputs \cup ZoneInputs \cup TrendInputs
        \cup SideInputs \cup ExampleInputs

\* ------------------------------------------------------------------ main
Init ==
    /\ \E inp \in Inputs :
         /\ series = inp.series
         /\ index = inp.index
         /\ mean = inp.mean
         /\ std_dev = inp.std_dev
         /\ applied_rules = inp.applied_rules
    /\ pc = "ready"
    /\ violations = no_violations
    /\ fig = no_chart

\* if pd.isna(std_dev) or std_dev == 0
limits_undefined(sd) == isna(sd) \/ sd = Num(0)

\* st.warning(...): no limits, no rules, no chart
MainWarn ==
    /\ pc = "ready"
    /\ limits_undefined(std_dev)
    /\ pc' = "warned"
    /\ UNCHANGED <<series, index, mean, std_dev, applied_rules, violations, fig>>

\* the else branch: limits, apply_westgard_rules, create_qc_chart, st.plotly_chart
MainChart ==
    /\ pc = "ready"
    /\ ~limits_undefined(std_dev)
    /\ LET sd == std_dev[1]
           center_line == mean
           upper_control_limit == mean + 3 * sd
           lower_control_limit == mean - 3 * sd
           v == apply_westgard_rules(series, index, mean, sd)
       IN /\ violations' = v
          /\ fig' = create_qc_chart(center_line, upper_control_limit,
                                    lower_control_limit, v, applied_rules)
    /\ pc' = "charted"
    /\ UNCHANGED <<series, index, mean, std_dev, applied_rules>>

Next == MainWarn \/ MainChart

Spec == Init /\ [][Next]_vars

TypeOK ==
    /\ pc \in {"ready", "warned", "charted"}
    /\ Len(series) = Len(index)
    /\ \A i \in 1..Len(index) : \A j \in 1..Len(index) : i < j => index[i] < index[j]
    /\ DOMAIN violations \subseteq westgard_rules_options
    /\ fig.rendered \in BOOLEAN

\* ------------------------------------------------------------------ properties
\* What each rule is to report, stated over the windows of the series
\* (positions a..a+w-1) rather than by the loops above.
Charted == pc = "charted"
Positive == std_dev[1] > 0
Labels == {index[i] : i \in 1..Len(index)}
Reported(r) == to_set(get(violations, r))
WindowLabels(a, w) == {index[p] : p \in a..(a + w - 1)}
Windows(w) == 1..(Len(series) - w + 1)
Above(a, w, t) == \A p \in a..(a + w - 1) : series[p] > t
Below(a, w, t) == \A p \in a..(a + w - 1) : series[p] < t
Upper(k) == mean + k * std_dev[1]
Lower(k) == mean - k * std_dev[1]

Expect13s ==
    {index[p] : p \in {q \in 1..Len(series) :
                          series[q] > Upper(3) \/ series[q] < Lower(3)}}
Expect22s ==
    UNION {WindowLabels(a, 2) :
              a \in {b \in Windows(2) : Above(b, 2, Upper(2)) \/ Below(b, 2, Lower(2))}}
ExpectR4s ==
    UNION {WindowLabels(a, 2) :
              a \in {b \in Windows(2) :
                        abs(series[b + 1] - series[b]) > 4 * std_dev[1]}}
Expect41s ==
    UNION {WindowLabels(a, 4) :
              a \in {b \in Windows(4) : Above(b, 4, Upper(1)) \/ Below(b, 4, Lower(1))}}
Expect10x ==
    UNION {WindowLabels(a, 10) :
              a \in {b \in Windows(10) : Above(b, 10, mean) \/ Below(b, 10, mean)}}
Rising(a, w) == \A p \in a..(a + w - 2) : series[p] < series[p + 1]
Falling(a, w) == \A p \in a..(a + w - 2) : series[p] > series[p + 1]
Expect7T ==
    UNION {WindowLabels(a, 7) :
              a \in {b \in Windows(7) : Rising(b, 7) \/ Falling(b, 7)}}
Expected(r) ==
    CASE r = "1-3s" -> Expect13s
      [] r = "2-2s" -> Expect22s
      [] r = "R-4s" -> ExpectR4s
      [] r = "4-1s" -> Expect41s
      [] r = "10-x" -> Expect10x
      [] r = "7-T"  -> Expect7T

\* C1: with a positive dispersion, the list returned for each of the six
\* rules holds only labels of the input series, holds none twice, and is
\* strictly ascending.
C1_ListsValidUniqueAscending ==
    (Charted /\ Positive) =>
        \A r \in westgard_rules_options :
            LET l == get(violations, r)
            IN /\ \A k \in 1..Len(l) : l[k] \in Labels
               /\ \A j \in 1..Len(l) : \A k \in 1..Len(l) : j < k => l[j] < l[k]

\* C1 witness: an index with a gap, and two overlapping R-4s pairs whose
\* shared point was appended twice before the final pass.
C1_Witness ==
    /\ Charted /\ Positive
    /\ Len(series) = 3
    /\ index[3] > 2
    /\ Len(get(violations, "R-4s")) = 3

\* C2: a dispersion that is <= 0 or undefined is refused: the run ends in
\* the warning, with no limits, no violation lists and no chart.
C2_NonPositiveRefused ==
    (pc # "ready" /\ (isna(std_dev) \/ std_dev[1] <= 0)) =>
        /\ pc = "warned"
        /\ DOMAIN violations = {}
        /\ fig.rendered = FALSE
        /\ fig.lines = <<>>

IsExample3 ==
    /\ series = <<0, 0, 0, 0, 100>>
    /\ index = <<0, 1, 2, 3, 4>>
    /\ mean = 0
    /\ std_dev = Num(1)

\* C3 as stated: on [0,0,0,0,100], center 0, dispersion 1, rule 1-3s
\* reports index 4 only and no other rule reports anything.
C3_OnlyRule13sFires ==
    (Charted /\ IsExample3) =>
        /\ get(violations, "1-3s") = <<4>>
        /\ \A r \in westgard_rules_options \ {"1-3s"} : get(violations, r) = <<>>

\* C3 amended: on that series 1-3s reports index 4 only, R-4s reports
\* indices 3 and 4 (the step from 0 to 100 exceeds 4), and the other four
\* rules report nothing.
C3_Rule13sAndR4sFire ==
    (Charted /\ IsExample3) =>
        /\ get(violations, "1-3s") = <<4>>
        /\ get(violations, "R-4s") = <<3, 4>>
        /\ \A r \in westgard_rules_options \ {"1-3s", "R-4s"} :
              get(violations, r) = <<>>

C3_Witness == Charted /\ IsExample3 /\ "R-4s" \in DOMAIN violations

\* C4 as stated: the result for a requested subset S holds exactly the
\* keys of S (read either as the returned mapping or as the drawn traces).
C4_ExactlyRequestedKeys ==
    (Charted /\ Positive) =>
        \/ DOMAIN violations = applied_rules
        \/ DOMAIN fig.traces = applied_rules

\* C4 amended: the traces drawn are those of the rules of S that have at
\* least one violation, each with the full evaluation's list; looking a
\* rule of S up (a missing key reading as the empty list) gives the full
\* evaluation's list; nothing outside S is drawn.  The returned mapping
\* does not depend on S: it holds 1-3s always and any other rule exactly
\* when that rule has a violation.
C4_RequestedRulesDrawn ==
    Charted =>
        /\ DOMAIN fig.traces = {r \in applied_rules : Expected(r) # {}}
        /\ \A r \in DOMAIN fig.traces :
              /\ fig.traces[r] = get(violations, r)
              /\ to_set(fig.traces[r]) = Expected(r)
        /\ \A r \in applied_rules : Reported(r) = Expected(r)
        /\ DOMAIN violations =
              {"1-3s"} \cup {r \in westgard_rules_options : Expected(r) # {}}

\* C4 witness: a rule outside S has violations and is not drawn, a rule
\* of S has none and has no key.
C4_Witness ==
    /\ Charted /\ Positive
    /\ \E r \in westgard_rules_options \ applied_rules :
          r \in DOMAIN violations /\ violations[r] # <<>> /\ r \notin DOMAIN fig.traces
    /\ \E r \in applied_rules : r \notin DOMAIN violations
    /\ DOMAIN fig.traces # {}

WindowSize(r) ==
    CASE r = "1-3s" -> 1
      [] r = "2-2s" -> 2
      [] r = "R-4s" -> 2
      [] r = "4-1s" -> 4
      [] r = "10-x" -> 10
      [] r = "7-T"  -> 7

\* C5: an empty series gives the empty list for every rule, and a series
\* shorter than a rule's window gives the empty list for that rule.
C5_ShortSeriesEmpty ==
    Charted =>
        /\ Len(series) = 0 =>
              \A r \in westgard_rules_options : get(violations, r) = <<>>
        /\ \A r \in westgard_rules_options :
              Len(series) < WindowSize(r) => get(violations, r) = <<>>

\* C5 witness: three points, all above center + dispersion, one short of
\* the 4-1s window.
C5_Witness ==
    /\ Charted /\ Positive
    /\ Len(series) = 3
    /\ Above(1, 3, Upper(1))
    /\ get(violations, "4-1s") = <<>>

\* C6: rule 1-3s reports exactly the points strictly beyond
\* center +/- 3 dispersion; a point on a limit is not reported.
C6_Rule13sExact ==
    (Charted /\ Positive) =>
        /\ Reported("1-3s") = Expect13s
        /\ \A p \in 1..Len(series) :
              (series[p] = Upper(3) \/ series[p] = Lower(3)) =>
                  index[p] \notin Reported("1-3s")

\* C6 witness: a point on the upper limit and one on the lower limit, not
\* reported, next to a reported one.
C6_Witness ==
    /\ Charted /\ Positive
    /\ Len(series) = 3
    /\ series[1] = Upper(3)
    /\ series[2] = Lower(3)
    /\ Reported("1-3s") = {index[3]}

\* C7: rule R-4s reports exactly both points of every consecutive pair
\* whose absolute difference is strictly above 4 dispersion; [0,5] gives
\* {0,1} and [0,4] gives nothing.
C7_RuleR4sExact ==
    (Charted /\ Positive) =>
        /\ Reported("R-4s") = ExpectR4s
        /\ (series = <<0, 5>> /\ index = <<0, 1>> /\ std_dev = Num(1)) =>
              get(violations, "R-4s") = <<0, 1>>
        /\ (series = <<0, 4>> /\ std_dev = Num(1)) =>
              get(violations, "R-4s") = <<>>

\* C7 witness: a pair exactly 4 dispersion apart whose first point is not
\* reported, followed by a pair that is.
C7_Witness ==
    /\ Charted /\ Positive
    /\ Len(series) = 3
    /\ abs(series[2] - series[1]) = 4 * std_dev[1]
    /\ Reported("R-4s") = {index[2], index[3]}

\* C8: rules 2-2s and 4-1s report exactly the points of the windows (of 2
\* resp. 4) that lie wholly above the upper or wholly below the lower
\* threshold; a window with points beyond both thresholds does not fire.
C8_SameSideWindows ==
    (Charted /\ Positive) =>
        /\ Reported("2-2s") = Expect22s
        /\ Reported("4-1s") = Expect41s

\* C8 witness: a 2-window and a 4-window each with points beyond both
\* thresholds, whose first point is not reported, while a later 4-window
\* fires.
C8_Witness ==
    /\ Charted /\ Positive
    /\ Len(series) = 5
    /\ series[1] > Upper(2) /\ series[2] < Lower(2)
    /\ \A p \in 2..4 : series[p] < Lower(1)
    /\ index[1] \notin Reported("2-2s")
    /\ Reported("4-1s") = WindowLabels(2, 4)

\* C9: rule 7-T reports exactly the points of every window of 7 that is
\* strictly rising or strictly falling; overlapping windows all count.
C9_Rule7TExact ==
    Charted =>
        /\ Reported("7-T") = Expect7T
        /\ \A n \in 7..Len(series) :
              (Rising(1, n) \/ Falling(1, n)) =>
                  WindowLabels(1, n) \subseteq Reported("7-T")

\* C9 witness: eight strictly rising points, all reported, then a plateau
\* point that is not.
C9_Witness ==
    /\ Charted
    /\ Len(series) = 9
    /\ Rising(1, 8)
    /\ series[9] = series[8]
    /\ Reported("7-T") = WindowLabels(1, 8)

\* A maximal run a..b of points strictly on one side of the center.
SameSideRun(a, b) ==
    /\ Above(a, b - a + 1, mean) \/ Below(a, b - a + 1, mean)
    /\ a > 1 => ~(Above(a - 1, b - a + 2, mean) \/ Below(a - 1, b - a + 2, mean))
    /\ b < Len(series) =>
          ~(Above(a, b - a + 2, mean) \/ Below(a, b - a + 2, mean))

\* C10: rule 10-x reports exactly the points of every window of 10 that is
\* strictly on one side of the center; a maximal run of nine reports none.
C10_Rule10xExact ==
    Charted =>
        /\ Reported("10-x") = Expect10x
        /\ \A a \in 1..Len(series) :
              (a + 8 <= Len(series) /\ SameSideRun(a, a + 8)) =>
                  WindowLabels(a, 9) \cap Reported("10-x") = {}

\* C10 witness: nine points above the center, one on it, one above again.
C10_Witness ==
    /\ Charted
    /\ Len(series) = 11
    /\ SameSideRun(1, 9)
    /\ series[10] = mean
    /\ series[11] > mean
    /\ Reported("10-x") = {}

====
